---- MODULE Spec2Model ----
(***************************************************************************)
(* Model of thales/indicators/series_indicators.py: technical indicators   *)
(* computed from one price series (a pandas Series with a DatetimeIndex).  *)
(*                                                                         *)
(* A series is a sequence of rows [t |-> timestamp, v |-> value].  Values  *)
(* are exact rationals <<num, den>> (den > 0, lowest terms); the float     *)
(* specials are <<0,0>> (NaN), <<1,0>> (+inf) and <<-1,0>> (-inf).         *)
(* Floating-point rounding is not modelled.                                *)
(***************************************************************************)
EXTENDS Integers, Sequences, FiniteSets, TLC

\* ---------------------------------------------------------------- bounds
MaxLen == 3
MaxVal == 2
MaxN == 3
MaxSpan == 2
MaxAlphaDen == 2
MaxKamaLen == 4

\* ------------------------------------------------------ float arithmetic
NaN == <<0, 0>>

R(i) == <<i, 1>>

AbsInt(i) == IF i < 0 THEN -i ELSE i

Sign(i) == IF i < 0 THEN -1 ELSE IF i > 0 THEN 1 ELSE 0

RECURSIVE Gcd(_, _)
Gcd(a, b) == IF b = 0 THEN a ELSE Gcd(b, a % b)

Norm(n, d) ==
    IF d = 0 THEN <<Sign(n), 0>>
    ELSE LET g == Gcd(AbsInt(n), AbsInt(d))
         IN  <<(Sign(d) * n) \div g, AbsInt(d) \div g>>

IsNaN(a) == a = NaN

IsInf(a) == a[2] = 0 /\ a[1] # 0

IsFinite(a) == a[2] # 0

Neg(a) == <<-a[1], a[2]>>

Abs(a) == <<AbsInt(a[1]), a[2]>>

\* finite sums and products cancel common factors before they multiply
Add(a, b) ==
    IF IsNaN(a) \/ IsNaN(b) THEN NaN
    ELSE IF IsInf(a) /\ IsInf(b) THEN (IF a = b THEN a ELSE NaN)
    ELSE IF IsInf(a) THEN a
    ELSE IF IsInf(b) THEN b
    ELSE LET g == Gcd(a[2], b[2])
         IN  Norm(a[1] * (b[2] \div g) + b[1] * (a[2] \div g),
                  (a[2] \div g) * b[2])

Sub(a, b) == Add(a, Neg(b))

Mul(a, b) ==
    IF IsNaN(a) \/ IsNaN(b) THEN NaN
    ELSE IF IsInf(a) \/ IsInf(b)
         THEN (IF a[1] = 0 \/ b[1] = 0 THEN NaN ELSE <<Sign(a[1]) * Sign(b[1]), 0>>)
    ELSE LET g1 == Gcd(AbsInt(a[1]), b[2])
             g2 == Gcd(AbsInt(b[1]), a[2])
         IN  Norm((a[1] \div g1) * (b[1] \div g2), (a[2] \div g2) * (b[2] \div g1))

Div(a, b) ==
    IF IsNaN(a) \/ IsNaN(b) THEN NaN
    ELSE IF IsInf(b) THEN (IF IsInf(a) THEN NaN ELSE R(0))
    ELSE IF b[1] = 0 THEN (IF a[1] = 0 THEN NaN ELSE <<Sign(a[1]), 0>>)
    ELSE Mul(a, <<Sign(b[1]) * b[2], AbsInt(b[1])>>)

\* a < b on floats: any comparison with NaN is false
Lt(a, b) == ~IsNaN(a) /\ ~IsNaN(b) /\ a[1] * b[2] < b[1] * a[2]

\* ------------------------------------------------------- pandas helpers
\* a sequence given as a function, evaluated once into a tuple
AsTuple(f) == f \o <<>>

Row(t, v) == [t |-> t, v |-> v]

Index(s) == AsTuple([i \in 1..Len(s) |-> s[i].t])

Vals(s) == AsTuple([i \in 1..Len(s) |-> s[i].v])

\* pd.Series(data, index=index)
MkSeries(index, data) == AsTuple([i \in 1..Len(index) |-> Row(index[i], data[i])])

\* Series.sort_index(ascending=True): rows in ascending index order, rows with
\* equal labels keeping their order
sort_index(s) ==
    LET rank(i) == Cardinality({j \in 1..Len(s) :
                        s[j].t < s[i].t \/ (s[j].t = s[i].t /\ j <= i)})
    IN  AsTuple([k \in 1..Len(s) |-> s[CHOOSE i \in 1..Len(s) : rank(i) = k]])

dropna(s) == SelectSeq(s, LAMBDA e : ~IsNaN(e.v))

\* the value at label t, NaN when the label is absent (reindexing)
AtLabel(s, t) ==
    IF \E i \in 1..Len(s) : s[i].t = t
    THEN s[CHOOSE i \in 1..Len(s) : s[i].t = t].v
    ELSE NaN

\* sorted union of two indexes (Index.union of unequal indexes)
UnionIndex(a, b) ==
    LET labels == {a[i].t : i \in 1..Len(a)} \cup {b[i].t : i \in 1..Len(b)}
        rank(t) == Cardinality({u \in labels : u <= t})
    IN  AsTuple([k \in 1..Cardinality(labels) |-> CHOOSE t \in labels : rank(t) = k])

\* ---------------------------------------------------------- result values
Ok(cols) == [status |-> "ok", out |-> cols]

Raise(kind) == [status |-> kind, out |-> <<>>]

\* ------------------------------------------------- aligned series arithmetic
\* The index of a binary operation's result: the operands' own index when the
\* two are equal, else the sorted union of their labels.
AlignIndex(a, b) == IF Index(a) = Index(b) THEN Index(a) ELSE UnionIndex(a, b)

LeftAt(a, b, k) ==
    IF Index(a) = Index(b) THEN a[k].v ELSE AtLabel(a, AlignIndex(a, b)[k])

RightAt(a, b, k) ==
    IF Index(a) = Index(b) THEN b[k].v ELSE AtLabel(b, AlignIndex(a, b)[k])

SeriesAdd(a, b) ==
    AsTuple([k \in 1..Len(AlignIndex(a, b)) |->
        Row(AlignIndex(a, b)[k], Add(LeftAt(a, b, k), RightAt(a, b, k)))])

SeriesSub(a, b) ==
    AsTuple([k \in 1..Len(AlignIndex(a, b)) |->
        Row(AlignIndex(a, b)[k], Sub(LeftAt(a, b, k), RightAt(a, b, k)))])

SeriesDiv(a, b) ==
    AsTuple([k \in 1..Len(AlignIndex(a, b)) |->
        Row(AlignIndex(a, b)[k], Div(LeftAt(a, b, k), RightAt(a, b, k)))])

\* scalar * series
ScalarMul(c, a) == AsTuple([k \in 1..Len(a) |-> Row(a[k].t, Mul(c, a[k].v))])

SeriesAbs(a) == AsTuple([k \in 1..Len(a) |-> Row(a[k].t, Abs(a[k].v))])

\* Series.diff(n): first n entries NaN
SeriesDiff(a, n) ==
    AsTuple([k \in 1..Len(a) |->
        Row(a[k].t, IF k <= n THEN NaN ELSE Sub(a[k].v, a[k - n].v))])

RECURSIVE SumRange(_, _, _)
SumRange(a, lo, hi) ==
    IF lo > hi THEN R(0) ELSE Add(a[lo].v, SumRange(a, lo + 1, hi))

WindowFull(a, k, n) ==
    k >= n /\ \A j \in (k - n + 1)..k : ~IsNaN(a[j].v)

\* Series.rolling(window=n).sum(): min_periods = n, so a window that is short
\* or holds a NaN gives NaN
RollingSum(a, n) ==
    AsTuple([k \in 1..Len(a) |->
        Row(a[k].t, IF WindowFull(a, k, n) THEN SumRange(a, k - n + 1, k) ELSE NaN)])

\* Series.rolling(window=n).mean()
RollingMean(a, n) ==
    AsTuple([k \in 1..Len(a) |->
        Row(a[k].t, IF WindowFull(a, k, n)
                    THEN Div(SumRange(a, k - n + 1, k), R(n)) ELSE NaN)])

\* ------------------------------------------------------------ module level
\* validate_series: the index kind, the ascending sort, then the NaN check
\* the missing-value check made before the index check
validate_series_NaNFirst(s, isDatetime) ==
    IF Len(dropna(s)) # Len(s) THEN Raise("ContainsMissingValues")
    ELSE IF ~isDatetime THEN Raise("InvalidIndexKind")
    ELSE Ok(<<sort_index(s)>>)

validate_series(s, isDatetime) ==
    IF ~isDatetime THEN Raise("InvalidIndexKind")
    ELSE LET sorted == sort_index(s)
         IN  IF Len(dropna(sorted)) # Len(sorted)
             THEN Raise("ContainsMissingValues")
             ELSE Ok(<<sorted>>)

\* the difference taken relative to the output
convert_to_percent_diff_ByOutput(input_s, output_s) ==
    SeriesDiv(SeriesSub(output_s, input_s), output_s)

convert_to_percent_diff(input_s, output_s) ==
    SeriesDiv(SeriesSub(output_s, input_s), input_s)

convert_to_ratio(input_s, output_s) == SeriesDiv(output_s, input_s)

\* Python's None, and the truth value of an optional number
None == <<>>

Falsy(x) == x = None \/ (x[1] = 0 /\ x[2] # 0)

\* Instantiating an indicator class runs its base class's __init__; the
\* indicators instantiate one another, so the operator is declared first.
RECURSIVE New(_, _, _, _, _, _, _)

\* ------------------------------------------------------------------- SMA
\* rolling mean with min_periods=1: short windows averaged over what they hold
RollingMeanPartial(a, n) ==
    AsTuple([k \in 1..Len(a) |->
        Row(a[k].t, IF k >= n THEN RollingMean(a, n)[k].v
                    ELSE Div(SumRange(a, 1, k), R(k)))])

SMA_apply_indicator_MinPeriods1(s, n) == Ok(<<RollingMeanPartial(s, n)>>)

SMA_apply_indicator(s, n) == Ok(<<RollingMean(s, n)>>)

SMA_init(s, isDatetime, n, validate, as_percent_diff, as_ratio) ==
    New("SMA", s, isDatetime, validate, as_percent_diff, as_ratio, [n |-> n])

\* ------------------------------------------------------------------- EMA
\* Series.ewm(alpha, span, adjust=False): the smoothing factor, or the error
EwmAlpha(alpha, span) ==
    IF alpha # None /\ span # None THEN None
    ELSE IF span # None THEN (IF Lt(span, R(1)) THEN None
                              ELSE Div(R(2), Add(span, R(1))))
    ELSE IF alpha # None THEN (IF ~Lt(R(0), alpha) \/ Lt(R(1), alpha) THEN None
                               ELSE alpha)
    ELSE None

\* a step that weights the new value by 1-a and the running value by a
EwmWeighted_Swapped(weighted, old_wt, cur, a) ==
    IF IsNaN(weighted) THEN cur
    ELSE IF IsNaN(cur) THEN weighted
    ELSE Add(Mul(Sub(R(1), a), cur), Mul(a, weighted))

\* one step of the ewm mean (adjust=False, ignore_na=False) from the running
\* value `weighted` and the weight `old_wt` it carries
EwmWeighted(weighted, old_wt, cur, a) ==
    IF ~IsNaN(weighted)
    THEN IF ~IsNaN(cur) /\ weighted # cur
         THEN Div(Add(Mul(Mul(old_wt, Sub(R(1), a)), weighted), Mul(a, cur)),
                  Add(Mul(old_wt, Sub(R(1), a)), a))
         ELSE weighted
    ELSE cur

EwmOldWt(weighted, old_wt, cur, a) ==
    IF IsNaN(weighted) THEN old_wt
    ELSE IF ~IsNaN(cur) THEN R(1)
    ELSE Mul(old_wt, Sub(R(1), a))

RECURSIVE EwmFrom(_, _, _, _, _, _)
EwmFrom(s, i, weighted, old_wt, a, acc) ==
    IF i > Len(s) THEN acc
    ELSE LET w == EwmWeighted(weighted, old_wt, s[i].v, a)
         IN  EwmFrom(s, i + 1, w, EwmOldWt(weighted, old_wt, s[i].v, a), a,
                     Append(acc, Row(s[i].t, w)))

EwmMean(s, a) ==
    IF Len(s) = 0 THEN <<>>
    ELSE EwmFrom(s, 2, s[1].v, R(1), a, <<Row(s[1].t, s[1].v)>>)

EMA_apply_indicator(s, alpha, span) ==
    IF EwmAlpha(alpha, span) = None THEN Raise("ValueError")
    ELSE Ok(<<EwmMean(s, EwmAlpha(alpha, span))>>)

\* `if not alpha and not span: span = len(s)`
DefaultSpan(s, alpha, span) ==
    IF Falsy(alpha) /\ Falsy(span) THEN R(Len(s)) ELSE span

EMA_init(s, isDatetime, alpha, span, validate, as_percent_diff, as_ratio) ==
    New("EMA", s, isDatetime, validate, as_percent_diff, as_ratio,
                           [alpha |-> alpha, span |-> DefaultSpan(s, alpha, span)])

\* ------------------------------------------------------------------- WMA
\* np.arange(n, 0, -1) / sum: weights[1] = n/sum is the largest
Weights(n) == AsTuple([k \in 1..n |-> Div(R(n - k + 1), R((n * (n + 1)) \div 2))])

RECURSIVE SumOf_(_)
SumOf_(x) == IF Len(x) = 0 THEN R(0) ELSE Add(x[1], SumOf_(Tail(x)))

RECURSIVE ConvTerm(_, _, _, _)
ConvTerm(s, w, m, k) ==
    IF k > Len(w) THEN R(0)
    ELSE Add(Mul(w[k], s[m + Len(w) - k].v), ConvTerm(s, w, m, k + 1))

\* a correlation: the kernel is not flipped, w[1] meets the oldest value
Correlate(s, w) ==
    AsTuple([m \in 1..(Len(s) - Len(w) + 1) |->
        SumOf_([k \in 1..Len(w) |-> Mul(w[k], s[m + k - 1].v)])])

\* scipy.signal.convolve(s, w, mode="valid") for len(w) <= len(s): the kernel
\* is flipped, so w[1] meets the newest value of each window
Convolve(s, w) == AsTuple([m \in 1..(Len(s) - Len(w) + 1) |-> ConvTerm(s, w, m, 1)])

\* For n > len(s) convolve swaps its operands and returns n - len(s) + 1
\* values, which do not fit the empty index s.index[n-1:]: pd.Series raises.
WMA_apply_indicator(s, n) ==
    IF n > Len(s) THEN Raise("ValueError")
    ELSE Ok(<<MkSeries(SubSeq(Index(s), n, Len(s)), Convolve(s, Weights(n)))>>)

WMA_init(s, isDatetime, n, validate, as_percent_diff, as_ratio) ==
    New("WMA", s, isDatetime, validate, as_percent_diff, as_ratio, [n |-> n])

\* ------------------------------------------------------------------ DEMA
\* the second EMA called without the smoothing arguments: EMA(ema, validate=False)
DEMA_apply_indicator_InnerDefault(s, isDatetime, alpha, span) ==
    LET ema == EMA_init(s, isDatetime, alpha, span, FALSE, FALSE, FALSE)
        ema2 == EMA_init(ema.out[1], isDatetime, None, None, FALSE, FALSE, FALSE)
    IN  IF ema.status # "ok" THEN ema
        ELSE IF ema2.status # "ok" THEN ema2
        ELSE Ok(<<SeriesSub(ScalarMul(R(2), ema.out[1]), ema2.out[1])>>)

DEMA_apply_indicator(s, isDatetime, alpha, span) ==
    LET ema == EMA_init(s, isDatetime, alpha, span, FALSE, FALSE, FALSE)
        ema2 == EMA_init(ema.out[1], isDatetime, alpha, span, FALSE, FALSE, FALSE)
    IN  IF ema.status # "ok" THEN ema
        ELSE IF ema2.status # "ok" THEN ema2
        ELSE Ok(<<SeriesSub(ScalarMul(R(2), ema.out[1]), ema2.out[1])>>)

DEMA_init(s, isDatetime, alpha, span, validate, as_percent_diff, as_ratio) ==
    New("DEMA", s, isDatetime, validate, as_percent_diff, as_ratio,
                           [alpha |-> alpha, span |-> DefaultSpan(s, alpha, span)])

\* ------------------------------------------------------------------ TEMA
TEMA_apply_indicator(s, isDatetime, alpha, span) ==
    LET ema == EMA_init(s, isDatetime, alpha, span, FALSE, FALSE, FALSE)
        ema2 == EMA_init(ema.out[1], isDatetime, alpha, span, FALSE, FALSE, FALSE)
        ema3 == EMA_init(ema2.out[1], isDatetime, alpha, span, FALSE, FALSE, FALSE)
    IN  IF ema.status # "ok" THEN ema
        ELSE IF ema2.status # "ok" THEN ema2
        ELSE IF ema3.status # "ok" THEN ema3
        ELSE Ok(<<SeriesAdd(SeriesSub(ScalarMul(R(3), ema.out[1]),
                                      ScalarMul(R(3), ema2.out[1])),
                            ema3.out[1])>>)

TEMA_init(s, isDatetime, alpha, span, validate, as_percent_diff, as_ratio) ==
    New("TEMA", s, isDatetime, validate, as_percent_diff, as_ratio,
                           [alpha |-> alpha, span |-> DefaultSpan(s, alpha, span)])

\* ----------------------------------------------------------------- TRIMA
\* the second SMA call validates (validate defaults to True)
TRIMA_apply_indicator(s, isDatetime, n) ==
    LET sma == SMA_init(s, isDatetime, n, FALSE, FALSE, FALSE)
    IN  IF sma.status # "ok" THEN sma
        ELSE SMA_init(dropna(sma.out[1]), isDatetime, n, TRUE, FALSE, FALSE)

TRIMA_init(s, isDatetime, n, validate, as_percent_diff, as_ratio) ==
    New("TRIMA", s, isDatetime, validate, as_percent_diff, as_ratio, [n |-> n])

\* ------------------------------------------------------------------- KER
\* a flat window reported as ratio 0 (the undefined ratios filled in)
KER_apply_indicator_FlatAsZero(s, n) ==
    LET trend == SeriesAbs(SeriesDiff(s, n))
        volatility == RollingSum(SeriesAbs(SeriesDiff(s, 1)), n)
    IN  Ok(<<AsTuple([k \in 1..Len(s) |->
                Row(s[k].t, IF volatility[k].v = R(0) THEN R(0)
                            ELSE Div(trend[k].v, volatility[k].v))])>>)

KER_apply_indicator(s, n) ==
    LET trend == SeriesAbs(SeriesDiff(s, n))
        volatility == RollingSum(SeriesAbs(SeriesDiff(s, 1)), n)
    IN  Ok(<<SeriesDiv(trend, volatility)>>)

KER_init(s, isDatetime, n, validate, as_percent_diff, as_ratio) ==
    New("KER", s, isDatetime, validate, as_percent_diff, as_ratio, [n |-> n])

\* ------------------------------------------------------------------ KAMA
\* df.loc[labels]: the rows of `a` at `labels`, in that order
Loc(a, labels) == AsTuple([k \in 1..Len(labels) |-> Row(labels[k], AtLabel(a, labels[k]))])

\* the constant left unsquared
SmoothingConstant_Unsquared(e_ratio, fast_c, slow_c) ==
    AsTuple([k \in 1..Len(e_ratio) |->
        Row(e_ratio[k].t, Add(Mul(e_ratio[k].v, Sub(fast_c, slow_c)), slow_c))])

\* (e_ratio * (fast_c - slow_c) + slow_c) ** 2
SmoothingConstant(e_ratio, fast_c, slow_c) ==
    AsTuple([k \in 1..Len(e_ratio) |->
        Row(e_ratio[k].t,
            LET x == Add(Mul(e_ratio[k].v, Sub(fast_c, slow_c)), slow_c)
            IN  Mul(x, x))])

\* the loop over zip(price, sc): `kama` holds the list so far, seed first
RECURSIVE KamaLoop(_, _, _, _)
KamaLoop(price, sc, i, kama) ==
    IF i > Len(price) THEN kama
    ELSE LET prior_kama == kama[Len(kama)]
         IN  KamaLoop(price, sc, i + 1,
                      Append(kama, Add(prior_kama,
                                       Mul(sc[i].v, Sub(price[i].v, prior_kama)))))

\* the check written as `assert n > er`
KAMA_apply_indicator_Strict(s, isDatetime, er, ema_fast, ema_slow, n) ==
    IF n <= er THEN Raise("InvalidParameter")
    ELSE Ok(<<MkSeries(Tail(Index(dropna(RollingMean(s, n)))),
                       Tail(Vals(dropna(RollingMean(s, n)))))>>)

\* The input series is taken to be named (calc_df[s.name] selects its column).
KAMA_apply_indicator(s, isDatetime, er, ema_fast, ema_slow, n) ==
    IF n < er THEN Raise("InvalidParameter")
    ELSE
    LET e_ratio == KER_init(s, isDatetime, er, FALSE, FALSE, FALSE).out[1]
        fast_c == Div(R(2), R(ema_fast + 1))
        slow_c == Div(R(2), R(ema_slow + 1))
        smoothing_constant == SmoothingConstant(e_ratio, fast_c, slow_c)
        sma == dropna(SMA_init(s, isDatetime, n, FALSE, FALSE, FALSE).out[1])
        calc_index == Tail(Index(sma))
        kama == KamaLoop(Loc(s, calc_index), Loc(smoothing_constant, calc_index),
                         1, <<sma[1].v>>)
    IN  IF Len(sma) = 0 THEN Raise("IndexError")
        ELSE Ok(<<MkSeries(calc_index, Tail(kama))>>)

KAMA_init(s, isDatetime, er, ema_fast, ema_slow, n, validate, as_percent_diff, as_ratio) ==
    New("KAMA", s, isDatetime, validate, as_percent_diff, as_ratio,
                           [er |-> er, ema_fast |-> ema_fast,
                            ema_slow |-> ema_slow, n |-> n])

\* ------------------------------------------------------------------- RSI
\* up.loc[up < 0] = 0 and down.loc[down > 0] = 0 (a NaN is left as it is)
ZeroWhereNegative(a) ==
    AsTuple([k \in 1..Len(a) |-> Row(a[k].t, IF Lt(a[k].v, R(0)) THEN R(0) ELSE a[k].v)])

ZeroWherePositive(a) ==
    AsTuple([k \in 1..Len(a) |-> Row(a[k].t, IF Lt(R(0), a[k].v) THEN R(0) ELSE a[k].v)])

\* down smoothed without .abs()
RSI_apply_indicator_NoAbs(s, isDatetime, n) ==
    LET up == ZeroWhereNegative(SeriesDiff(s, 1))
        down == ZeroWherePositive(SeriesDiff(s, 1))
        up_ewm == EMA_init(up, isDatetime, None, R(n), FALSE, FALSE, FALSE)
        down_ewm == EMA_init(down, isDatetime, None, R(n), FALSE, FALSE, FALSE)
    IN  Ok(<<SeriesDiv(up_ewm.out[1],
                       SeriesAdd(up_ewm.out[1], down_ewm.out[1]))>>)

RSI_apply_indicator(s, isDatetime, n) ==
    LET up == ZeroWhereNegative(SeriesDiff(s, 1))
        down == ZeroWherePositive(SeriesDiff(s, 1))
        up_ewm == EMA_init(up, isDatetime, None, R(n), FALSE, FALSE, FALSE)
        down_ewm == EMA_init(SeriesAbs(down), isDatetime, None, R(n),
                             FALSE, FALSE, FALSE)
    IN  IF up_ewm.status # "ok" THEN up_ewm
        ELSE IF down_ewm.status # "ok" THEN down_ewm
        ELSE Ok(<<SeriesDiv(up_ewm.out[1],
                            SeriesAdd(up_ewm.out[1], down_ewm.out[1]))>>)

RSI_init(s, isDatetime, n, validate, as_percent_diff, as_ratio) ==
    New("RSI", s, isDatetime, validate, as_percent_diff, as_ratio, [n |-> n])

\* ------------------------------------------------------------------ MACD
MACD_apply_indicator(s, isDatetime, p_fast, p_slow, signal) ==
    LET ema_fast == EMA_init(s, isDatetime, None, R(p_fast), FALSE, FALSE, FALSE)
        ema_slow == EMA_init(s, isDatetime, None, R(p_slow), FALSE, FALSE, FALSE)
        macd == SeriesSub(ema_fast.out[1], ema_slow.out[1])
        macd_signal == EMA_init(macd, isDatetime, None, R(signal),
                                FALSE, FALSE, FALSE)
    IN  IF ema_fast.status # "ok" THEN ema_fast
        ELSE IF ema_slow.status # "ok" THEN ema_slow
        ELSE IF macd_signal.status # "ok" THEN macd_signal
        ELSE Ok(<<macd, macd_signal.out[1]>>)

\* ------------------------------------------------------- the base classes
\* the subclass's apply_indicator, by class
apply_indicator(cls, s, isDatetime, kw) ==
    CASE cls = "SMA" -> SMA_apply_indicator(s, kw.n)
      [] cls = "EMA" -> EMA_apply_indicator(s, kw.alpha, kw.span)
      [] cls = "WMA" -> WMA_apply_indicator(s, kw.n)
      [] cls = "DEMA" -> DEMA_apply_indicator(s, isDatetime, kw.alpha, kw.span)
      [] cls = "TEMA" -> TEMA_apply_indicator(s, isDatetime, kw.alpha, kw.span)
      [] cls = "TRIMA" -> TRIMA_apply_indicator(s, isDatetime, kw.n)
      [] cls = "KER" -> KER_apply_indicator(s, kw.n)
      [] cls = "KAMA" -> KAMA_apply_indicator(s, isDatetime, kw.er, kw.ema_fast,
                                              kw.ema_slow, kw.n)
      [] cls = "RSI" -> RSI_apply_indicator(s, isDatetime, kw.n)

\* the ratio tested first
Transform_RatioFirst(s, output, as_percent_diff, as_ratio) ==
    IF as_ratio THEN convert_to_ratio(s, output)
    ELSE IF as_percent_diff THEN convert_to_percent_diff(s, output)
    ELSE output

\* `if as_percent_diff: ... elif as_ratio: ...`
Transform(s, output, as_percent_diff, as_ratio) ==
    IF as_percent_diff THEN convert_to_percent_diff(s, output)
    ELSE IF as_ratio THEN convert_to_ratio(s, output)
    ELSE output

Validated(s, isDatetime, validate) ==
    IF validate THEN validate_series(s, isDatetime) ELSE Ok(<<s>>)

\* _SeriesInSeriesOut.__init__
SeriesInSeriesOut_init(cls, s, isDatetime, validate, as_percent_diff, as_ratio, kw) ==
    LET v == Validated(s, isDatetime, validate)
        r == apply_indicator(cls, v.out[1], isDatetime, kw)
    IN  IF v.status # "ok" THEN v
        ELSE IF r.status # "ok" THEN r
        ELSE Ok(<<Transform(v.out[1], r.out[1], as_percent_diff, as_ratio)>>)

\* _SeriesInDfOut.__init__ (MACD is its one subclass): a transformed column
\* is assigned back on the table's index
SeriesInDfOut_init(s, isDatetime, validate, as_percent_diff, as_ratio, kw) ==
    LET v == Validated(s, isDatetime, validate)
        r == MACD_apply_indicator(v.out[1], isDatetime, kw.p_fast, kw.p_slow,
                                  kw.signal)
    IN  IF v.status # "ok" THEN v
        ELSE IF r.status # "ok" THEN r
        ELSE Ok(AsTuple([c \in 1..Len(r.out) |->
                    Loc(Transform(v.out[1], r.out[c], as_percent_diff, as_ratio),
                        Index(r.out[c]))]))

\* MACD subclasses _SeriesInDfOut, every other indicator _SeriesInSeriesOut
New(cls, s, isDatetime, validate, as_percent_diff, as_ratio, kw) ==
    IF cls = "MACD"
    THEN SeriesInDfOut_init(s, isDatetime, validate, as_percent_diff, as_ratio, kw)
    ELSE SeriesInSeriesOut_init(cls, s, isDatetime, validate, as_percent_diff,
                                as_ratio, kw)

MACD_init(s, isDatetime, p_fast, p_slow, signal, validate, as_percent_diff, as_ratio) ==
    New("MACD", s, isDatetime, validate, as_percent_diff, as_ratio,
        [p_fast |-> p_fast, p_slow |-> p_slow, signal |-> signal])

\* ------------------------------------------------------------ the program
VARIABLES s, isDatetime, pc, call, status, output

vars == <<s, isDatetime, pc, call, status, output>>

Prices == {R(k) : k \in 1..MaxVal}

\* a series that passes validation: ascending timestamps 1..L, no NaN
ValidInputs ==
    UNION {{AsTuple([i \in 1..L |-> Row(i, f[i])]) : f \in [1..L -> Prices]} : L \in 1..MaxLen}

\* what validation looks at: the rows given in a rotated order, any of the
\* prices missing (the prices themselves are all 1)
Rotate(a, r) == AsTuple([i \in 1..Len(a) |-> a[((i + r - 1) % Len(a)) + 1]])

RawInputs ==
    UNION {{Rotate(AsTuple([i \in 1..L |-> Row(i, f[i])]), r) :
                f \in [1..L -> {R(1), NaN}], r \in 0..(L - 1)} :
           L \in 1..MaxLen}

Windows == 1..MaxN

Alphas == {None} \cup {Div(R(1), R(d)) : d \in 1..MaxAlphaDen}

Spans == {None} \cup {R(k) : k \in 1..MaxSpan}

\* alpha alone, span alone, neither, and one call that passes both
EwmArgs ==
    {p \in Alphas \X Spans :
        p[1] = None \/ p[2] = None \/ (p[1] = R(1) /\ p[2] = R(1))}

\* periods small enough for exact arithmetic in 32-bit integers
FastPeriods == {1}
SlowPeriods == {3}
SignalPeriods == {2}

NoFlags == [validate |-> TRUE, as_percent_diff |-> FALSE, as_ratio |-> FALSE]

Idle == [ind |-> "none", args |-> <<>>, f |-> NoFlags]

InitValid ==
    /\ s \in ValidInputs
    /\ isDatetime = TRUE
    /\ pc = "ready"
    /\ call = Idle
    /\ status = "none"
    /\ output = <<>>

Init ==
    /\ s \in RawInputs
    /\ isDatetime \in BOOLEAN
    /\ pc = "ready"
    /\ call = Idle
    /\ status = "none"
    /\ output = <<>>

\* the call returns (or raises): its result is recorded
Returns(c, r) ==
    /\ pc = "ready"
    /\ pc' = "done"
    /\ call' = c
    /\ status' = r.status
    /\ output' = r.out
    /\ UNCHANGED <<s, isDatetime>>

Flags == [validate : BOOLEAN, as_percent_diff : BOOLEAN, as_ratio : BOOLEAN]

CallSMA ==
    \E n \in Windows, f \in Flags :
        Returns([ind |-> "SMA", args |-> [n |-> n], f |-> f],
                SMA_init(s, isDatetime, n, f.validate, f.as_percent_diff, f.as_ratio))

CallWMA ==
    \E n \in Windows, f \in Flags :
        Returns([ind |-> "WMA", args |-> [n |-> n], f |-> f],
                WMA_init(s, isDatetime, n, f.validate, f.as_percent_diff, f.as_ratio))

CallTRIMA ==
    \E n \in Windows, f \in Flags :
        Returns([ind |-> "TRIMA", args |-> [n |-> n], f |-> f],
                TRIMA_init(s, isDatetime, n, f.validate, f.as_percent_diff, f.as_ratio))

CallKER ==
    \E n \in Windows, f \in Flags :
        Returns([ind |-> "KER", args |-> [n |-> n], f |-> f],
                KER_init(s, isDatetime, n, f.validate, f.as_percent_diff, f.as_ratio))

CallRSI ==
    \E n \in Windows, f \in Flags :
        Returns([ind |-> "RSI", args |-> [n |-> n], f |-> f],
                RSI_init(s, isDatetime, n, f.validate, f.as_percent_diff, f.as_ratio))

CallEMA ==
    \E p \in EwmArgs, f \in Flags :
        Returns([ind |-> "EMA", args |-> [alpha |-> p[1], span |-> p[2]], f |-> f],
                EMA_init(s, isDatetime, p[1], p[2], f.validate,
                         f.as_percent_diff, f.as_ratio))

CallDEMA ==
    \E p \in EwmArgs, f \in Flags :
        Returns([ind |-> "DEMA", args |-> [alpha |-> p[1], span |-> p[2]], f |-> f],
                DEMA_init(s, isDatetime, p[1], p[2], f.validate,
                          f.as_percent_diff, f.as_ratio))

CallTEMA ==
    \E p \in EwmArgs, f \in Flags :
        Returns([ind |-> "TEMA", args |-> [alpha |-> p[1], span |-> p[2]], f |-> f],
                TEMA_init(s, isDatetime, p[1], p[2], f.validate,
                          f.as_percent_diff, f.as_ratio))

CallKAMA ==
    \E er \in Windows, n \in Windows, ema_fast \in FastPeriods,
       ema_slow \in SlowPeriods, f \in Flags :
        Returns([ind |-> "KAMA",
                 args |-> [er |-> er, ema_fast |-> ema_fast,
                           ema_slow |-> ema_slow, n |-> n],
                 f |-> f],
                KAMA_init(s, isDatetime, er, ema_fast, ema_slow, n,
                          f.validate, f.as_percent_diff, f.as_ratio))

CallMACD ==
    \E p_fast \in FastPeriods, p_slow \in SlowPeriods,
       signal \in SignalPeriods, f \in Flags :
        Returns([ind |-> "MACD",
                 args |-> [p_fast |-> p_fast, p_slow |-> p_slow, signal |-> signal],
                 f |-> f],
                MACD_init(s, isDatetime, p_fast, p_slow, signal,
                          f.validate, f.as_percent_diff, f.as_ratio))

Next ==
    \/ CallSMA
    \/ CallEMA
    \/ CallWMA
    \/ CallDEMA
    \/ CallTEMA
    \/ CallTRIMA
    \/ CallKER
    \/ CallKAMA
    \/ CallMACD
    \/ CallRSI

Spec == Init /\ [][Next]_vars

SpecValid == InitValid /\ [][Next]_vars

\* KAMA and the KER it is built on, on validated series long enough for
\* KAMA's loop to take several steps after the seed
KamaInputs ==
    UNION {{AsTuple([i \in 1..L |-> Row(i, f[i])]) : f \in [1..L -> Prices]} :
           L \in 1..MaxKamaLen}

InitKAMA ==
    /\ s \in KamaInputs
    /\ isDatetime = TRUE
    /\ pc = "ready"
    /\ call = Idle
    /\ status = "none"
    /\ output = <<>>

NextKAMA == CallKAMA \/ CallKER

SpecKAMA == InitKAMA /\ [][NextKAMA]_vars

\* ================================================================ claims
\* What the properties below are stated with.  Prices of the valid inputs
\* are whole numbers, so sums and means are checked by cross-multiplication
\* in the integers rather than with the model's float arithmetic.
Done(ind) == pc = "done" /\ call.ind = ind

Untransformed == ~call.f.as_percent_diff /\ ~call.f.as_ratio

\* the price at position i as an integer
P(i) == s[i].v[1]

RECURSIVE PriceSum(_, _)
PriceSum(lo, hi) == IF lo > hi THEN 0 ELSE P(lo) + PriceSum(lo + 1, hi)

\* the value x equals the fraction num / den (den > 0)
IsFraction(x, num, den) == IsFinite(x) /\ x[1] * den = num * x[2]

Defined(a) == {k \in 1..Len(a) : ~IsNaN(a[k].v)}

\* ---------------------------------------------------------------- C1
SMACase ==
    /\ Done("SMA")
    /\ Untransformed
    /\ call.args.n <= Len(s)

\* C1 as stated: SMA(s, n) returns exactly L-(n-1) points, none of them an
\* undefined placeholder, the first being the mean of the first n inputs.
C1_AsClaimed ==
    SMACase =>
        /\ status = "ok"
        /\ Len(output[1]) = Len(s) - (call.args.n - 1)
        /\ Defined(output[1]) = 1..Len(output[1])
        /\ IsFraction(output[1][1].v, PriceSum(1, call.args.n), call.args.n)

\* C1 amended: SMA(s, n) returns L points on the input's index; the positions
\* before n-1 are present as NaN, exactly L-(n-1) points are defined, and each
\* defined point is the mean of the n inputs ending there, so the first
\* defined point is the mean of the first n inputs.
C1_SMA ==
    SMACase =>
        /\ status = "ok"
        /\ Index(output[1]) = Index(s)
        /\ Defined(output[1]) = call.args.n..Len(s)
        /\ Cardinality(Defined(output[1])) = Len(s) - (call.args.n - 1)
        /\ \A k \in call.args.n..Len(s) :
              IsFraction(output[1][k].v, PriceSum(k - call.args.n + 1, k), call.args.n)

C1_Witness ==
    /\ SMACase
    /\ call.args.n = 2
    /\ Len(s) = 3
    /\ IsNaN(output[1][1].v)
    /\ output[1][2].v = <<3, 2>>

\* ---------------------------------------------------------------- C2
\* the smoothing factor of an EMA-family call: alpha as given, else
\* 2/(span+1), the span defaulting to the series length
CallAlpha ==
    IF call.args.alpha # None THEN call.args.alpha
    ELSE IF call.args.span # None THEN Div(R(2), Add(call.args.span, R(1)))
    ELSE Div(R(2), R(Len(s) + 1))

\* ema[1] = x[1], ema[i] = a*x[i] + (1-a)*ema[i-1]
RECURSIVE Recurrence(_, _, _)
Recurrence(x, a, i) ==
    IF i = 1 THEN x[1]
    ELSE Add(Mul(a, x[i]), Mul(Sub(R(1), a), Recurrence(x, a, i - 1)))

EwmCase(ind) ==
    /\ Done(ind)
    /\ Untransformed
    /\ (call.args.alpha = None \/ call.args.span = None)

\* C2: EMA returns one value per input point on the input's index, with
\* ema[0] = s[0] and ema[i] = alpha*s[i] + (1-alpha)*ema[i-1], alpha being
\* given, derived from span as 2/(span+1), or derived from span = len(s).
C2_EMA ==
    EwmCase("EMA") =>
        /\ status = "ok"
        /\ Index(output[1]) = Index(s)
        /\ output[1][1].v = s[1].v
        /\ \A i \in 2..Len(s) :
              output[1][i].v = Add(Mul(CallAlpha, s[i].v),
                                   Mul(Sub(R(1), CallAlpha), output[1][i - 1].v))

C2_Witness ==
    /\ EwmCase("EMA")
    /\ call.args.alpha = None
    /\ call.args.span = None
    /\ Len(s) = 3
    /\ status = "ok"
    /\ output[1][3].v # output[1][2].v
    /\ output[1][3].v # s[3].v

\* ---------------------------------------------------------------- C6
\* C6: DEMA(s) = 2*EMA(s) - EMA(EMA(s)) pointwise on the full input index,
\* the three EMAs being the recurrence with the DEMA call's own smoothing
\* factor (alpha, span, or the default span = len(s)).
C6_DEMA ==
    EwmCase("DEMA") =>
        /\ status = "ok"
        /\ Index(output[1]) = Index(s)
        /\ \A ema \in {[i \in 1..Len(s) |-> Recurrence(Vals(s), CallAlpha, i)]} :
           \A i \in 1..Len(s) :
              output[1][i].v = Sub(Mul(R(2), ema[i]), Recurrence(ema, CallAlpha, i))

C6_Witness ==
    /\ EwmCase("DEMA")
    /\ call.args.alpha = None
    /\ call.args.span = R(1)
    /\ Len(s) = 3
    /\ status = "ok"
    /\ s[2].v # s[1].v

\* ---------------------------------------------------------------- C5
\* sum over k = 0..n-1 of s[i-k] * (n-k)
RECURSIVE WeightedPriceSum(_, _, _)
WeightedPriceSum(i, n, k) ==
    IF k > n - 1 THEN 0 ELSE P(i - k) * (n - k) + WeightedPriceSum(i, n, k + 1)

Triangle(n) == (n * (n + 1)) \div 2

RECURSIVE SumOf(_, _)
SumOf(w, k) == IF k > Len(w) THEN R(0) ELSE Add(w[k], SumOf(w, k + 1))

WMACase ==
    /\ Done("WMA")
    /\ Untransformed
    /\ call.args.n <= Len(s)

\* C5: WMA(s, n) returns L-(n-1) points at the input positions n-1..L-1; the
\* value at position i is the sum over k of s[i-k]*(n-k)/(n(n+1)/2), so the
\* newest value has weight n, the oldest weight 1, and the weights sum to 1.
C5_WMA ==
    WMACase =>
        /\ status = "ok"
        /\ Index(output[1]) = SubSeq(Index(s), call.args.n, Len(s))
        /\ Len(output[1]) = Len(s) - (call.args.n - 1)
        /\ \A m \in 1..Len(output[1]) :
              IsFraction(output[1][m].v,
                         WeightedPriceSum(m + call.args.n - 1, call.args.n, 0),
                         Triangle(call.args.n))
        /\ SumOf(Weights(call.args.n), 1) = R(1)
        /\ IsFraction(Weights(call.args.n)[1], call.args.n, Triangle(call.args.n))
        /\ IsFraction(Weights(call.args.n)[call.args.n], 1, Triangle(call.args.n))

C5_Witness ==
    /\ WMACase
    /\ call.args.n = 2
    /\ Len(s) = 3
    /\ P(2) = 1
    /\ P(3) = 2
    /\ output[1][2].v = <<5, 3>>

\* ---------------------------------------------------------------- C3
HasNaN == \E i \in 1..Len(s) : IsNaN(s[i].v)

PassesValidation == isDatetime /\ ~HasNaN

\* C3 as stated: KAMA with n < er fails with InvalidParameter for every input
\* series and returns nothing; with n >= er it never fails with that error.
C3_AsClaimed ==
    Done("KAMA") =>
        /\ call.args.n < call.args.er => status = "InvalidParameter" /\ output = <<>>
        /\ call.args.n >= call.args.er => status # "InvalidParameter"

\* C3 amended: KAMA with n < er always fails and returns nothing; the error is
\* InvalidParameter exactly when the input passes validation or validation is
\* switched off, and otherwise the validation error (InvalidIndexKind, else
\* ContainsMissingValues) raised before the parameter check.  With n >= er it
\* never fails with InvalidParameter.
C3_KAMA ==
    Done("KAMA") =>
        /\ call.args.n < call.args.er =>
              /\ output = <<>>
              /\ status = IF ~call.f.validate \/ PassesValidation THEN "InvalidParameter"
                          ELSE IF ~isDatetime THEN "InvalidIndexKind"
                          ELSE "ContainsMissingValues"
        /\ call.args.n >= call.args.er => status # "InvalidParameter"

C3_Witness ==
    /\ Done("KAMA")
    /\ call.args.n < call.args.er
    /\ call.f.validate
    /\ Len(s) = 3
    /\ s[1].t # 1
    /\ status = "InvalidParameter"

\* ---------------------------------------------------------------- C4
KAMACase ==
    /\ Done("KAMA")
    /\ Untransformed
    /\ call.args.n >= call.args.er
    /\ Len(s) >= call.args.n

\* C4: KAMA's output starts at the seed position n-1 with the first valid
\* value of SMA(s, n), and so has L-(n-1) points.
C4_AsClaimed ==
    KAMACase =>
        /\ status = "ok"
        /\ Len(output[1]) = Len(s) - (call.args.n - 1)
        /\ output[1][1].t = s[call.args.n].t
        /\ IsFraction(output[1][1].v, PriceSum(1, call.args.n), call.args.n)

\* ---------------------------------------------------------------- C7
IsAscending(idx) == \A k \in 1..(Len(idx) - 1) : idx[k] < idx[k + 1]

Rows(a) == {a[k] : k \in 1..Len(a)}

ValidationErrors == {"InvalidIndexKind", "ContainsMissingValues"}

ValidatedCall == pc = "done" /\ call.f.validate

\* C7 as stated: with validation on, an input with a missing value makes
\* every indicator call fail with ContainsMissingValues.
C7_AsClaimed ==
    (ValidatedCall /\ HasNaN) => status = "ContainsMissingValues" /\ output = <<>>

\* C7 amended: with validation on, an input without a date/time index fails
\* with InvalidIndexKind whether or not it has missing values; an input with a
\* date/time index and a missing value at any position, in any row order,
\* fails with ContainsMissingValues; either way nothing is computed.  An input
\* with a date/time index and no missing value never fails validation and is
\* computed on in ascending order.
C7_Validation ==
    ValidatedCall =>
        /\ ~isDatetime => status = "InvalidIndexKind" /\ output = <<>>
        /\ (isDatetime /\ HasNaN) =>
              status = "ContainsMissingValues" /\ output = <<>>
        /\ PassesValidation =>
              /\ status \notin ValidationErrors
              /\ status = "ok" =>
                    \A c \in 1..Len(output) : IsAscending(Index(output[c]))
              /\ (Done("SMA") /\ Untransformed /\ call.args.n = 1) =>
                    /\ status = "ok"
                    /\ Rows(output[1]) = Rows(s)
                    /\ Len(output[1]) = Len(s)

C7_Witness ==
    /\ ValidatedCall
    /\ HasNaN
    /\ ~isDatetime
    /\ Len(s) = 3
    /\ s[1].t = 2
    /\ status = "InvalidIndexKind"

\* ---------------------------------------------------------------- C8
\* the value a series holds at timestamp t, NaN when t is not in its index
ValueAt(a, t) ==
    IF \E k \in 1..Len(a) : a[k].t = t
    THEN (CHOOSE r \in Rows(a) : r.t = t).v
    ELSE NaN

\* (raw - s) / s and raw / s, timestamp by timestamp over the index idx
PctForm(raw, idx) ==
    [k \in 1..Len(idx) |->
        Row(idx[k], Div(Sub(ValueAt(raw, idx[k]), ValueAt(s, idx[k])),
                        ValueAt(s, idx[k])))]

RatioForm(raw, idx) ==
    [k \in 1..Len(idx) |->
        Row(idx[k], Div(ValueAt(raw, idx[k]), ValueAt(s, idx[k])))]

\* the keyword arguments the call's constructor hands to its base class
RawArgs ==
    IF call.ind \in {"EMA", "DEMA", "TEMA"}
    THEN [alpha |-> call.args.alpha,
          span |-> DefaultSpan(s, call.args.alpha, call.args.span)]
    ELSE call.args

\* what the same call returns with neither transform requested
RawOutput ==
    New(call.ind, s, isDatetime, call.f.validate, FALSE, FALSE, RawArgs).out

\* a table column keeps the table's index, a series takes the input's
FormIndex(raw) == IF call.ind = "MACD" THEN Index(raw) ELSE Index(s)

OkCall == pc = "done" /\ status = "ok"

\* C8: with both transforms requested the result is the percent-difference
\* form (output - input)/input; with as_ratio alone it is output/input; with
\* neither it is the output unchanged; for series indicators and for each of
\* MACD's two columns.
C8_Transform ==
    OkCall =>
        \A raw \in {RawOutput} :
           /\ Len(output) = Len(raw)
           /\ \A c \in 1..Len(output) :
                 output[c] =
                    IF call.f.as_percent_diff
                    THEN PctForm(raw[c], FormIndex(raw[c]))
                    ELSE IF call.f.as_ratio
                    THEN RatioForm(raw[c], FormIndex(raw[c]))
                    ELSE raw[c]

C8_Witness ==
    /\ OkCall
    /\ call.ind = "MACD"
    /\ call.f.as_percent_diff
    /\ call.f.as_ratio
    /\ Len(output) = 2
    /\ output[1][1].v = R(-1)
    /\ RawOutput[1][1].v = R(0)

\* ---------------------------------------------------------------- C9
PctCall ==
    /\ OkCall
    /\ call.ind # "MACD"
    /\ call.f.as_percent_diff

InIndex(a, t) == \E k \in 1..Len(a) : a[k].t = t

\* C9 as stated: the percent-difference result has exactly the timestamps of
\* the raw output; other input timestamps do not appear.
C9_AsClaimed ==
    PctCall =>
        \A raw \in {RawOutput[1]} :
           /\ Index(output[1]) = Index(raw)
           /\ \A k \in 1..Len(output[1]) :
                 output[1][k].v = Div(Sub(raw[k].v, ValueAt(s, output[1][k].t)),
                                      ValueAt(s, output[1][k].t))

\* C9 amended: the percent-difference result of a series indicator covers the
\* whole input index; at a timestamp t of the raw output it is
\* (output[t] - s[t]) / s[t], and at an input timestamp missing from the raw
\* output it is present as NaN.
C9_PercentDiff ==
    PctCall =>
        /\ Index(output[1]) = Index(s)
        /\ \A raw \in {RawOutput[1]} :
           \A k \in 1..Len(s) :
              IF InIndex(raw, s[k].t)
              THEN output[1][k].v = Div(Sub(ValueAt(raw, s[k].t), s[k].v), s[k].v)
              ELSE IsNaN(output[1][k].v)

C9_Witness ==
    /\ PctCall
    /\ call.ind = "WMA"
    /\ call.args.n = 2
    /\ Len(s) = 3
    /\ Len(RawOutput[1]) = 2
    /\ IsNaN(output[1][1].v)
    /\ output[1][2].v = <<-1, 6>>

\* --------------------------------------------------------------- C10
\* the positive and the (absolute) negative part of the first difference
UpAt(i) == IF P(i) > P(i - 1) THEN R(P(i) - P(i - 1)) ELSE R(0)

DownAbsAt(i) == IF P(i) < P(i - 1) THEN R(P(i - 1) - P(i)) ELSE R(0)

MoveAt(up, i) == IF up THEN UpAt(i) ELSE DownAbsAt(i)

\* the EMA of the moves, seeded at the first defined difference
RECURSIVE MoveEma(_, _, _)
MoveEma(up, a, i) ==
    IF i = 2 THEN MoveAt(up, 2)
    ELSE Add(Mul(a, MoveAt(up, i)), Mul(Sub(R(1), a), MoveEma(up, a, i - 1)))

RSICase ==
    /\ Done("RSI")
    /\ Untransformed
    /\ Len(s) >= 2

\* C10: RSI(s, n) is on the full input index; its first entry is present and
\* NaN; every later entry i is EMA(up)[i] / (EMA(up)[i] + EMA(|down|)[i]), the
\* EMAs having span n and being seeded at the first defined difference.
C10_RSI ==
    RSICase =>
        /\ status = "ok"
        /\ Index(output[1]) = Index(s)
        /\ IsNaN(output[1][1].v)
        /\ \A a \in {Div(R(2), R(call.args.n + 1))} :
           \A i \in 2..Len(s) :
              output[1][i].v = Div(MoveEma(TRUE, a, i),
                                   Add(MoveEma(TRUE, a, i), MoveEma(FALSE, a, i)))

C10_Witness ==
    /\ RSICase
    /\ call.args.n = 2
    /\ Len(s) = 3
    /\ P(1) = 1
    /\ P(2) = 2
    /\ P(3) = 1
    /\ output[1][2].v = R(1)
    /\ output[1][3].v = <<1, 3>>

\* --------------------------------------------------------------- C11
\* |s[i] - s[j]| as an integer
Move(i, j) == AbsInt(P(i) - P(j))

\* the sum of the er one-step moves ending at position i
RECURSIVE Volatility(_, _)
Volatility(i, er) ==
    IF er = 0 THEN 0 ELSE Move(i, i - 1) + Volatility(i - 1, er - 1)

\* KER over the full er-window ending at position i (i > er, counted from 1)
KerAt(i, er) == Div(R(Move(i, i - er)), R(Volatility(i, er)))

\* sc[i] = (KER[i]*(fast_c - slow_c) + slow_c)^2
ScAt(i) ==
    LET fast_c == Div(R(2), R(call.args.ema_fast + 1))
        slow_c == Div(R(2), R(call.args.ema_slow + 1))
        x == Add(Mul(KerAt(i, call.args.er), Sub(fast_c, slow_c)), slow_c)
    IN  Mul(x, x)

\* the fold: the seed at position n (counted from 1) is the mean of the first
\* n prices, and each later value is built from the one before it
RECURSIVE Fold(_)
Fold(i) ==
    IF i = call.args.n THEN Div(R(PriceSum(1, call.args.n)), R(call.args.n))
    ELSE LET prev == Fold(i - 1)
         IN  Add(prev, Mul(ScAt(i), Sub(R(P(i)), prev)))

\* C11: in KAMA with n >= er the values after the seed are a fold in
\* increasing timestamp order: from the seed (the first valid SMA(s, n) value,
\* at position n-1) each position i = n..L-1 gets
\* kama[i-1] + sc[i]*(s[i] - kama[i-1]), sc[i] being
\* (KER(s, er)[i]*(fast_c - slow_c) + slow_c)^2; every position the fold uses
\* has its full er-window, so KER there is the full-window ratio.
C11_KAMAFold ==
    KAMACase =>
        /\ status = "ok"
        /\ Index(output[1]) = SubSeq(Index(s), call.args.n + 1, Len(s))
        /\ IsAscending(Index(output[1]))
        /\ \A i \in (call.args.n + 1)..Len(s) :
              /\ i - call.args.er >= 1
              /\ output[1][i - call.args.n].v = Fold(i)
        /\ \A ker \in {KER_init(s, isDatetime, call.args.er, FALSE, FALSE, FALSE).out[1]} :
           \A i \in 1..Len(s) :
              /\ i > call.args.er => ker[i].v = KerAt(i, call.args.er)
              /\ i <= call.args.er => IsNaN(ker[i].v)

C11_Witness ==
    /\ KAMACase
    /\ call.args.n = 2
    /\ call.args.er = 2
    /\ Len(s) = 4
    /\ P(1) = 1
    /\ P(2) = 2
    /\ P(3) = 1
    /\ P(4) = 2
    /\ output[1][1].v = <<11, 8>>
    /\ IsFinite(output[1][2].v)
    /\ output[1][2].v # output[1][1].v

\* --------------------------------------------------------------- C12
\* the er one-step moves ending at position i (counted from 1) are all zero
Flat(i, er) == i > er /\ Volatility(i, er) = 0

\* C12: a flat er-window is never an error.  KER at its position is NaN; and
\* when the position is one KAMA's fold uses (i >= n), KAMA is NaN there and
\* at every later position: once undefined, never defined again.
C12_FlatWindow ==
    /\ Done("KER") =>
          /\ status = "ok"
          /\ Untransformed =>
                \A i \in 1..Len(s) :
                   Flat(i, call.args.n) => IsNaN(output[1][i].v)
    /\ (Done("KAMA") /\ call.args.n >= call.args.er /\ Len(s) >= call.args.n) =>
          /\ status = "ok"
          /\ Untransformed =>
                /\ \A i \in (call.args.n + 1)..Len(s) :
                      Flat(i, call.args.er) =>
                         \A j \in i..Len(s) : IsNaN(output[1][j - call.args.n].v)
                /\ \A j \in 1..(Len(output[1]) - 1) :
                      IsNaN(output[1][j].v) => IsNaN(output[1][j + 1].v)

C12_Witness ==
    /\ KAMACase
    /\ call.args.n = 1
    /\ call.args.er = 1
    /\ Len(s) = 4
    /\ Flat(3, 1)
    /\ ~Flat(2, 1)
    /\ ~Flat(4, 1)
    /\ IsFinite(output[1][1].v)
    /\ IsNaN(output[1][2].v)
    /\ IsNaN(output[1][3].v)

====
